---- MODULE Spec2Model ----
(***************************************************************************)
(* Item-based movie recommender (Streamlit apps movie_recommender_app.py   *)
(* and movie_recommender.py).                                              *)
(*                                                                         *)
(* Three specifications share the state below:                             *)
(*   SpecQuery  recommend_movie applied to the similarity frame of every   *)
(*              bounded rating dataset, with every argument;               *)
(*   Spec       concurrent browser sessions running the script against the *)
(*              process-wide st.cache_data entry of load_data, while the   *)
(*              data files change on disk;                                 *)
(*   SpecPage   one session of movie_recommender_app.py, the whole script  *)
(*              run: load_data, sidebar, st.stop guard, selectbox, button  *)
(*              handler.                                                   *)
(*                                                                         *)
(* Library behaviour the source relies on (pandas, scikit-learn,           *)
(* Streamlit) is modelled at the call that uses it.  Scores are exact      *)
(* rationals; floating-point rounding of cosine_similarity is not          *)
(* modelled.                                                               *)
(***************************************************************************)
EXTENDS Integers, Sequences, FiniteSets, TLC

(***************************************************************************)
(* Bounds of the model.                                                    *)
(***************************************************************************)
NumItems == 3
MaxN == 2
NumSessions == 2

\* Users and rating values of the bounded datasets.  Rating 0 is an explicit
\* zero rating (it makes an all-zero column); MovieLens itself has 1..5.
Users == 1 .. 2
RatingValues == 0 .. 1

Items == 1 .. NumItems
Sessions == 1 .. NumSessions

\* A title that no dataset contains ("NoSuchItem").
NoSuchItem == NumItems + 1

(***************************************************************************)
(* Program constants.                                                      *)
(***************************************************************************)
SliderMin == 3
SliderMax == 10

(***************************************************************************)
(* The data files u.data / u.item.  A dataset gives, for every (user,      *)
(* title) pair, the observed rating <<r>> or <<>> when the pair has no row *)
(* in u.data.  Titles are numbered in their sort order, so the column      *)
(* order pivot_table produces is the numeric order of Items.  u.item names *)
(* every movie_id of u.data (the inner merge drops nothing).               *)
(***************************************************************************)
Cells == {<<>>} \cup {<<r>> : r \in RatingValues}
Datasets == [Users \X Items -> Cells]

RECURSIVE Sum(_, _)
Sum(f, S) ==
  IF S = {} THEN 0
  ELSE LET x == CHOOSE y \in S : TRUE IN f[x] + Sum(f, S \ {x})

RECURSIVE GCD(_, _)
GCD(a, b) == IF b = 0 THEN a ELSE GCD(b, a % b)

Min(a, b) == IF a < b THEN a ELSE b

\* data.pivot_table(index='user_id', columns='title', values='rating'):
\* one row per user with a rating, one column per title with a rating,
\* NaN (<<>>) where the pair was not observed.
PivotTable(d) ==
  LET index == {u \in Users : \E i \in Items : d[u, i] # <<>>}
      columns == {i \in Items : \E u \in Users : d[u, i] # <<>>}
  IN [index |-> index, columns |-> columns,
      values |-> [p \in index \X columns |-> d[p]]]

\* user_movie_matrix.fillna(0)
FillNa(m) ==
  [index |-> m.index, columns |-> m.columns,
   values |-> [p \in DOMAIN m.values |->
                 IF m.values[p] = <<>> THEN 0 ELSE m.values[p][1]]]

Dot(m, i, j) ==
  Sum([u \in m.index |-> m.values[u, i] * m.values[u, j]], m.index)

\* One entry of cosine_similarity: dot(i, j) / (|i| * |j|), and 0 when a
\* column has norm 0 (sklearn's normalize leaves a zero vector as it is).
\* Ratings are non-negative, so the score is represented exactly by its
\* square, a reduced fraction <<numerator, denominator>>.
Cosine(m, i, j) ==
  LET d == Dot(m, i, j)
      ni == Dot(m, i, i)
      nj == Dot(m, j, j)
      g == GCD(d * d, ni * nj)
  IN IF ni = 0 \/ nj = 0 \/ d = 0 THEN <<0, 1>>
     ELSE <<(d * d) \div g, (ni * nj) \div g>>

\* cosine_similarity(user_movie_matrix_filled.T) wrapped in a DataFrame
\* indexed and labelled by the titles.
CosineSimilarityFrame(m) ==
  [kind |-> "DataFrame", columns |-> m.columns,
   sim |-> [p \in m.columns \X m.columns |-> Cosine(m, p[1], p[2])]]

ScoreLess(a, b) == a[1] * b[2] < b[1] * a[2]

(***************************************************************************)
(* pandas Series operations used by recommend_movie.  A Series is a        *)
(* sequence of <<title, score>> pairs.                                     *)
(***************************************************************************)
RECURSIVE Ascending(_)
Ascending(S) ==
  IF S = {} THEN <<>>
  ELSE LET m == CHOOSE x \in S : \A y \in S : x <= y
       IN <<m>> \o Ascending(S \ {m})

\* movie_similarity_df[movie_name]: the column, in index (title) order.
Column(df, movie_name) ==
  LET idx == Ascending(df.columns)
  IN [k \in 1 .. Len(idx) |-> <<idx[k], df.sim[idx[k], movie_name]>>]

\* Mutant of SortValuesDescending: the sort left out, the column comes back
\* in index order.
SortValuesOmitted(series) == {series}

\* series.sort_values(ascending=False): the entries by non-increasing score.
\* The default kind is 'quicksort', which is not stable, so the order among
\* equal scores is whatever the sort leaves: every such order is an outcome.
SortValuesDescending(series) ==
  LET n == Len(series)
      perms == {f \in [1 .. n -> 1 .. n] : \A a, b \in 1 .. n : f[a] = f[b] => a = b}
  IN {[k \in 1 .. n |-> series[f[k]]] : f \in
        {g \in perms : \A k \in 1 .. n - 1 :
             ~ScoreLess(series[g[k]][2], series[g[k + 1]][2])}}

\* Mutant of ILoc: the stop position taken as inclusive.
ILocStopInclusive(series, start, stop) ==
  LET last == Min(stop + 1, Len(series))
  IN IF start >= last THEN <<>> ELSE SubSeq(series, start + 1, last)

\* series.iloc[start:stop] for 0 <= start <= stop (a Python slice: positions
\* start .. stop-1, cut at the end of the series).
ILoc(series, start, stop) ==
  LET last == Min(stop, Len(series))
  IN IF start >= last THEN <<>> ELSE SubSeq(series, start + 1, last)

\* series.index.tolist()
IndexToList(series) == [k \in 1 .. Len(series) |-> series[k][1]]

(***************************************************************************)
(* recommend_movie: the set of results a call can return.                  *)
(***************************************************************************)
\* Mutant of RecommendMovieApp: the membership test left out, so the column
\* lookup raises KeyError for an unknown title.
RecommendMovieAppNoMembershipTest(df, movie_name, num_recommendations) ==
  IF movie_name \notin df.columns
  THEN {[kind |-> "KeyError", entries |-> <<>>, branch |-> "raise"]}
  ELSE {[kind |-> "Series", entries |-> ILoc(similar_movies, 1, num_recommendations + 1),
         branch |-> "return_iloc"] :
           similar_movies \in SortValuesDescending(Column(df, movie_name))}

\* movie_recommender_app.py
RecommendMovieApp(df, movie_name, num_recommendations) ==
  IF movie_name \notin df.columns
  THEN {[kind |-> "list", entries |-> <<>>, branch |-> "return_empty_list"]}
  ELSE {[kind |-> "Series", entries |-> ILoc(similar_movies, 1, num_recommendations + 1),
         branch |-> "return_iloc"] :
           similar_movies \in SortValuesDescending(Column(df, movie_name))}

\* movie_recommender.py: no membership test, the column lookup raises KeyError.
RecommendMovieSimple(df, movie_name, num_recommendations) ==
  IF movie_name \notin df.columns
  THEN {[kind |-> "KeyError", entries |-> <<>>, branch |-> "raise"]}
  ELSE {[kind |-> "list",
         entries |-> IndexToList(ILoc(similar_movies, 1, num_recommendations + 1)),
         branch |-> "return_iloc"] :
           similar_movies \in SortValuesDescending(Column(df, movie_name))}

recommend_movie(v, df, movie_name, num_recommendations) ==
  IF v = "app" THEN RecommendMovieApp(df, movie_name, num_recommendations)
  ELSE RecommendMovieSimple(df, movie_name, num_recommendations)

\* The titles of a result, in order (a Series carries <<title, score>> pairs,
\* a list carries titles).
ResultTitles(r) ==
  IF r.kind = "Series" THEN IndexToList(r.entries) ELSE r.entries

(***************************************************************************)
(* State.                                                                  *)
(***************************************************************************)
VARIABLES
  variant,              \* which script the process runs: "app" | "simple"
  valueLocks,           \* whether the installed Streamlit cache takes a per-key compute lock
  disk,                 \* the data files: [files |-> present?, data |-> dataset]
  cache,                \* st.cache_data entry of load_data(): <<>> or <<value>>
  lock,                 \* sessions holding the compute lock of the entry
  pc,                   \* per session: position of its script run
  movie_similarity_df,  \* per session: the script global (load_data's value)
  exc,                  \* per session: the exception that ended the run, or "none"
  missed,               \* per session: this run's first cache lookup missed
  ranBody,              \* per session: this run executed load_data's body to its return
  buildFailed,          \* per session: this run's body hit an exception
  bodyReturns,          \* how many times load_data's body returned a value
  firstResult,          \* the value the first such return produced
  overlapped,           \* two load_data calls were in progress at once
  num_recommendations,  \* session 1's slider value: <<>> (unbound) or <<n>>
  selected_movie,       \* session 1's selectbox value: <<>> (None) or <<title>>
  call,                 \* last recommend_movie call: <<>> or <<[movie_name, n, result]>>
  page                  \* what the page run ended with

vars ==
  <<variant, valueLocks, disk, cache, lock, pc, movie_similarity_df, exc, missed,
    ranBody, buildFailed, bodyReturns, firstResult, overlapped,
    num_recommendations, selected_movie, call, page>>

cacheVars == <<cache, lock, bodyReturns, firstResult, overlapped>>
runVars == <<pc, movie_similarity_df, exc, missed, ranBody, buildFailed>>
pageVars == <<num_recommendations, selected_movie, call, page>>

Unset == [kind |-> "unset", columns |-> {}, sim |-> <<>>]
\* load_data's (None, None)
NoneValue == [kind |-> "None", columns |-> {}, sim |-> <<>>]

(***************************************************************************)
(* load_data and its st.cache_data entry.                                  *)
(***************************************************************************)
\* The contents the data files take in Spec and SpecPage: snapshot k has
\* titles 1..k, each rated 1 by user 1, and title k rated 1 by user 2 too.
\* Snapshot 0 has no rating rows at all.
SnapshotData(k) ==
  [p \in Users \X Items |->
     IF p[2] <= k /\ (p[1] = 1 \/ p[2] = k) THEN <<1>> ELSE <<>>]

DiskStates ==
  {[files |-> FALSE, data |-> SnapshotData(0)]}
    \cup {[files |-> TRUE, data |-> SnapshotData(k)] : k \in 0 .. NumItems}

\* The body of load_data run against the files as they are now: what it
\* returns or raises.
\*  - files missing: pd.read_csv raises FileNotFoundError.  The app variant
\*    catches it, calls st.error and returns (None, None); the simple
\*    variant lets it propagate.
\*  - files present but without a rating row: the pivot has no column.
\*    cosine_similarity's input check rejects an array without samples
\*    (ValueError, not caught by either variant); a build whose check lets
\*    it through yields the empty frame.  Both outcomes are kept.
\*  - otherwise the similarity frame of the pivot.
\* Only the similarity frame of the returned tuple is modelled; the merged
\* ratings `data` feed the statistics display alone.
LoadDataBody(v, dsk) ==
  IF ~dsk.files
  THEN IF v = "app"
       THEN {[outcome |-> "return", value |-> NoneValue, exc |-> "FileNotFoundError"]}
       ELSE {[outcome |-> "raise", value |-> Unset, exc |-> "FileNotFoundError"]}
  ELSE IF PivotTable(dsk.data).columns = {}
  THEN {[outcome |-> "raise", value |-> Unset, exc |-> "ValueError"],
        [outcome |-> "return",
         value |-> CosineSimilarityFrame(FillNa(PivotTable(dsk.data))), exc |-> "none"]}
  ELSE {[outcome |-> "return",
         value |-> CosineSimilarityFrame(FillNa(PivotTable(dsk.data))), exc |-> "none"]}

\* Mutant of CacheStore: load_data left undecorated, nothing is kept.
CacheStoreNothing(c, value) == c

\* @st.cache_data on a function without arguments: one entry, keyed by the
\* function alone, written when the body returns; no ttl, no max_entries, so
\* the entry stays for the life of the process.
CacheStore(c, value) == <<value>>

InLoadData == {"call", "miss", "body", "write"}
Finished == {"loaded", "raised", "guard", "stopped", "main", "done"}

\* The values a script run starts from (its globals do not outlive it).
ResetRun(s) ==
  /\ movie_similarity_df' = [movie_similarity_df EXCEPT ![s] = Unset]
  /\ exc' = [exc EXCEPT ![s] = "none"]
  /\ missed' = [missed EXCEPT ![s] = FALSE]
  /\ ranBody' = [ranBody EXCEPT ![s] = FALSE]
  /\ buildFailed' = [buildFailed EXCEPT ![s] = FALSE]

Init ==
  /\ variant \in {"app", "simple"}
  /\ valueLocks \in BOOLEAN
  /\ disk \in DiskStates
  /\ cache = <<>>
  /\ lock = {}
  /\ pc = [s \in Sessions |-> "idle"]
  /\ movie_similarity_df = [s \in Sessions |-> Unset]
  /\ exc = [s \in Sessions |-> "none"]
  /\ missed = [s \in Sessions |-> FALSE]
  /\ ranBody = [s \in Sessions |-> FALSE]
  /\ buildFailed = [s \in Sessions |-> FALSE]
  /\ bodyReturns = 0
  /\ firstResult = Unset
  /\ overlapped = FALSE
  /\ num_recommendations = <<>>
  /\ selected_movie = <<>>
  /\ call = <<>>
  /\ page = "none"

\* A browser session (re)runs the script from the top; the first statement
\* with an effect is the call load_data() of line 105 / 65.
StartRun(s) ==
  /\ pc[s] = "idle"
  /\ pc' = [pc EXCEPT ![s] = "call"]
  /\ overlapped' = (overlapped \/ \E t \in Sessions \ {s} : pc[t] \in InLoadData)
  /\ UNCHANGED <<variant, valueLocks, disk, cache, lock, bodyReturns, firstResult,
                 movie_similarity_df, exc, missed, ranBody, buildFailed, pageVars>>

\* The cached function's first read of its entry, without any lock.
CacheLookup(s) ==
  /\ pc[s] = "call"
  /\ IF cache # <<>>
     THEN /\ movie_similarity_df' = [movie_similarity_df EXCEPT ![s] = cache[1]]
          /\ pc' = [pc EXCEPT ![s] = "loaded"]
          /\ UNCHANGED missed
     ELSE /\ missed' = [missed EXCEPT ![s] = TRUE]
          /\ pc' = [pc EXCEPT ![s] = "miss"]
          /\ UNCHANGED movie_similarity_df
  /\ UNCHANGED <<variant, valueLocks, disk, cacheVars, exc, ranBody, buildFailed, pageVars>>

\* After a miss.  A Streamlit whose cache has per-key compute locks takes the
\* entry's lock and reads the entry again before running the body; one
\* without them goes straight to the body.
HandleCacheMiss(s) ==
  /\ pc[s] = "miss"
  /\ IF valueLocks
     THEN /\ lock = {}
          /\ IF cache # <<>>
             THEN /\ movie_similarity_df' = [movie_similarity_df EXCEPT ![s] = cache[1]]
                  /\ pc' = [pc EXCEPT ![s] = "loaded"]
                  /\ UNCHANGED lock
             ELSE /\ lock' = {s}
                  /\ pc' = [pc EXCEPT ![s] = "body"]
                  /\ UNCHANGED movie_similarity_df
     ELSE /\ pc' = [pc EXCEPT ![s] = "body"]
          /\ UNCHANGED <<lock, movie_similarity_df>>
  /\ UNCHANGED <<variant, valueLocks, disk, cache, bodyReturns, firstResult, overlapped,
                 exc, missed, ranBody, buildFailed, pageVars>>

\* The body of load_data: read the files, build the matrix, compute the
\* similarity.  An exception leaves the cached function (and its lock).
RunBody(s) ==
  /\ pc[s] = "body"
  /\ \E o \in LoadDataBody(variant, disk) :
       /\ buildFailed' = [buildFailed EXCEPT ![s] = (o.exc # "none")]
       /\ IF o.outcome = "return"
          THEN /\ movie_similarity_df' = [movie_similarity_df EXCEPT ![s] = o.value]
               /\ ranBody' = [ranBody EXCEPT ![s] = TRUE]
               /\ bodyReturns' = bodyReturns + 1
               /\ firstResult' = IF bodyReturns = 0 THEN o.value ELSE firstResult
               /\ pc' = [pc EXCEPT ![s] = "write"]
               /\ UNCHANGED <<exc, lock>>
          ELSE /\ exc' = [exc EXCEPT ![s] = o.exc]
               /\ pc' = [pc EXCEPT ![s] = "raised"]
               /\ lock' = lock \ {s}
               /\ UNCHANGED <<movie_similarity_df, ranBody, bodyReturns, firstResult>>
  /\ UNCHANGED <<variant, valueLocks, disk, cache, overlapped, missed, pageVars>>

\* The returned value is written to the entry and handed to the caller
\* (movie_similarity_df = load_data()).
WriteResult(s) ==
  /\ pc[s] = "write"
  /\ cache' = CacheStore(cache, movie_similarity_df[s])
  /\ lock' = lock \ {s}
  /\ pc' = [pc EXCEPT ![s] = "loaded"]
  /\ UNCHANGED <<variant, valueLocks, disk, bodyReturns, firstResult, overlapped,
                 movie_similarity_df, exc, missed, ranBody, buildFailed, pageVars>>

\* The rest of the script after load_data: it touches neither the cache nor
\* the files.  The run ends (or an exception or st.stop ended it) and its
\* globals are gone.
FinishRun(s) ==
  /\ pc[s] \in Finished
  /\ pc' = [pc EXCEPT ![s] = "idle"]
  /\ ResetRun(s)
  /\ IF s = 1
     THEN /\ num_recommendations' = <<>>
          /\ selected_movie' = <<>>
          /\ call' = <<>>
          /\ page' = "none"
     ELSE UNCHANGED pageVars
  /\ UNCHANGED <<variant, valueLocks, disk, cacheVars>>

\* u.data / u.item are replaced, removed or restored outside the process.
DataChange ==
  /\ disk' \in DiskStates \ {disk}
  /\ UNCHANGED <<variant, valueLocks, cacheVars, runVars, pageVars>>

Next ==
  \/ \E s \in Sessions : StartRun(s)
  \/ \E s \in Sessions : CacheLookup(s)
  \/ \E s \in Sessions : HandleCacheMiss(s)
  \/ \E s \in Sessions : RunBody(s)
  \/ \E s \in Sessions : WriteResult(s)
  \/ \E s \in Sessions : FinishRun(s)
  \/ DataChange

Spec == Init /\ [][Next]_vars

(***************************************************************************)
(* SpecPage: one session of movie_recommender_app.py, the script after     *)
(* load_data.                                                              *)
(***************************************************************************)
\* st.slider(min_value, max_value): the values the widget can return.
Slider(min_value, max_value) == min_value .. max_value

\* Mutant of Selectbox: a free-text input in place of the selectbox, any
\* title can come back.
SelectboxFreeText(options) ==
  {<<t>> : t \in Items \cup {NoSuchItem}}

\* st.selectbox(label, options): one of the options, or None (<<>>) when
\* there is no option.  The index argument only sets the default.
Selectbox(options) ==
  IF Len(options) = 0 THEN {<<>>} ELSE {<<options[k]>> : k \in 1 .. Len(options)}

\* Lines 110-131: the sidebar binds num_recommendations only when the frame
\* loaded.
Sidebar ==
  /\ pc[1] = "loaded"
  /\ IF movie_similarity_df[1].kind # "None"
     THEN \E n \in Slider(SliderMin, SliderMax) : num_recommendations' = <<n>>
     ELSE UNCHANGED num_recommendations
  /\ pc' = [pc EXCEPT ![1] = "guard"]
  /\ UNCHANGED <<variant, valueLocks, disk, cacheVars, movie_similarity_df, exc,
                 missed, ranBody, buildFailed, selected_movie, call, page>>

\* Lines 136-137: if movie_similarity_df is None: st.stop()
StopGuard ==
  /\ pc[1] = "guard"
  /\ IF movie_similarity_df[1].kind = "None"
     THEN /\ pc' = [pc EXCEPT ![1] = "stopped"]
          /\ page' = "stopped"
     ELSE /\ pc' = [pc EXCEPT ![1] = "main"]
          /\ UNCHANGED page
  /\ UNCHANGED <<variant, valueLocks, disk, cacheVars, movie_similarity_df, exc,
                 missed, ranBody, buildFailed, num_recommendations, selected_movie, call>>

\* Lines 144-208: the selectbox, then the button handler.  `clicked` is what
\* st.button returns in this run.
MainPage ==
  /\ pc[1] = "main"
  /\ pc' = [pc EXCEPT ![1] = "done"]
  /\ \E sel \in Selectbox(Ascending(movie_similarity_df[1].columns)), clicked \in BOOLEAN :
       /\ selected_movie' = sel
       /\ IF ~clicked
          THEN page' = "rendered" /\ UNCHANGED call
          ELSE IF sel = <<>>
          THEN page' = "warning_select_movie" /\ UNCHANGED call
          ELSE IF num_recommendations = <<>>
          THEN page' = "NameError" /\ UNCHANGED call
          ELSE \E r \in recommend_movie("app", movie_similarity_df[1], sel[1],
                                        num_recommendations[1]) :
                 /\ call' = <<[movie_name |-> sel[1],
                               num_recommendations |-> num_recommendations[1],
                               result |-> r]>>
                 /\ page' = IF r.kind # "Series" THEN "AttributeError"
                            ELSE IF Len(r.entries) = 0 THEN "error_no_recommendations"
                            ELSE "recommendations_shown"
  /\ UNCHANGED <<variant, valueLocks, disk, cacheVars, movie_similarity_df, exc,
                 missed, ranBody, buildFailed, num_recommendations>>

InitPage == Init /\ variant = "app"

NextPage ==
  \/ StartRun(1)
  \/ CacheLookup(1)
  \/ HandleCacheMiss(1)
  \/ RunBody(1)
  \/ WriteResult(1)
  \/ Sidebar
  \/ StopGuard
  \/ MainPage
  \/ FinishRun(1)
  \/ DataChange

SpecPage == InitPage /\ [][NextPage]_vars

(***************************************************************************)
(* SpecQuery: recommend_movie on the frame of every dataset.               *)
(***************************************************************************)
InitQuery ==
  /\ variant \in {"app", "simple"}
  /\ valueLocks = FALSE
  /\ \E d \in Datasets :
       /\ PivotTable(d).columns # {}
       /\ disk = [files |-> TRUE, data |-> d]
       /\ movie_similarity_df =
            [s \in Sessions |->
               IF s = 1 THEN CosineSimilarityFrame(FillNa(PivotTable(d))) ELSE Unset]
  /\ cache = <<>>
  /\ lock = {}
  /\ pc = [s \in Sessions |-> IF s = 1 THEN "main" ELSE "idle"]
  /\ exc = [s \in Sessions |-> "none"]
  /\ missed = [s \in Sessions |-> FALSE]
  /\ ranBody = [s \in Sessions |-> FALSE]
  /\ buildFailed = [s \in Sessions |-> FALSE]
  /\ bodyReturns = 0
  /\ firstResult = Unset
  /\ overlapped = FALSE
  /\ num_recommendations = <<>>
  /\ selected_movie = <<>>
  /\ call = <<>>
  /\ page = "none"

\* recommend_movie(movie_name, num_recommendations) called directly, one call
\* at a time.
QueryCall ==
  /\ call = <<>>
  /\ \E movie_name \in Items \cup {NoSuchItem}, n \in 1 .. MaxN :
       \E r \in recommend_movie(variant, movie_similarity_df[1], movie_name, n) :
         call' = <<[movie_name |-> movie_name, num_recommendations |-> n, result |-> r]>>
  /\ UNCHANGED <<variant, valueLocks, disk, cacheVars, runVars,
                 num_recommendations, selected_movie, page>>

\* The caller is done with the result; the frame stays as it is.
QueryDone ==
  /\ call # <<>>
  /\ call' = <<>>
  /\ UNCHANGED <<variant, valueLocks, disk, cacheVars, runVars,
                 num_recommendations, selected_movie, page>>

NextQuery == QueryCall \/ QueryDone

SpecQuery == InitQuery /\ [][NextQuery]_vars

(***************************************************************************)
(* Claims about recommend_movie (checked under SpecQuery).                 *)
(***************************************************************************)
Called == call # <<>>
TheCall == call[1]
QueryFrame == movie_similarity_df[1]
KnownCall == Called /\ TheCall.movie_name \in QueryFrame.columns
UnknownCall == Called /\ TheCall.movie_name \notin QueryFrame.columns
ReturnedTitles == ResultTitles(TheCall.result)
ScoreTo(t) == QueryFrame.sim[t, TheCall.movie_name]
\* The titles the call returns when the sort leaves equal scores in index order.
StableTitles ==
  LET col == Column(QueryFrame, TheCall.movie_name)
      stable == CHOOSE p \in SortValuesDescending(col) :
                  \A a, b \in 1 .. Len(p) :
                    (a < b /\ p[a][2] = p[b][2]) => p[a][1] < p[b][1]
  IN IndexToList(ILoc(stable, 1, TheCall.num_recommendations + 1))
QueryExcluded ==
  \A k \in 1 .. Len(ReturnedTitles) : ReturnedTitles[k] # TheCall.movie_name
\* An item of the matrix whose rating is zero for every user.
ZeroItem(i) ==
  /\ i \in PivotTable(disk.data).columns
  /\ \A u \in Users : disk.data[u, i] \in {<<>>, <<0>>}

\* C1: for a query item q of the matrix and n >= 1, the result of
\* recommend_movie(q, n) does not contain q (also when another item ties with
\* q's own score, and when q's column is all zeros).
\* Stated for the results a stable sort yields (equal scores left in index
\* order), so that a violation does not rest on the order sort_values
\* leaves equal scores in.
C1_NeverContainsQuery ==
  (KnownCall /\ ReturnedTitles = StableTitles) => QueryExcluded

\* C2: for a query item of the matrix and n >= 1, recommend_movie returns
\* exactly min(n, K - 1) entries, K the number of items, and raises nothing.
C2_ResultLength ==
  KnownCall =>
    /\ TheCall.result.kind # "KeyError"
    /\ Len(TheCall.result.entries) =
         Min(TheCall.num_recommendations, Cardinality(QueryFrame.columns) - 1)

\* A call that asks for more entries than there are other items.
C2_Witness ==
  /\ KnownCall
  /\ Cardinality(QueryFrame.columns) >= 2
  /\ TheCall.num_recommendations > Cardinality(QueryFrame.columns) - 1
  /\ Len(TheCall.result.entries) = Cardinality(QueryFrame.columns) - 1

\* C3: the returned entries are ordered by score descending, and entries of
\* equal score by ascending item identifier.  (Stated for the calls whose
\* result leaves the query out, so that a violation is one of order alone.)
C3_OrderedWithTieBreak ==
  (KnownCall /\ QueryExcluded) =>
    \A a, b \in 1 .. Len(ReturnedTitles) :
      a < b =>
        \/ ScoreLess(ScoreTo(ReturnedTitles[b]), ScoreTo(ReturnedTitles[a]))
        \/ /\ ScoreTo(ReturnedTitles[a]) = ScoreTo(ReturnedTitles[b])
           /\ ReturnedTitles[a] < ReturnedTitles[b]

\* C8 as stated: for a query item that is not in the index, recommend_movie
\* signals a NotFound condition and does not return an empty successful result.
C8_UnknownSignalsNotFound ==
  UnknownCall => TheCall.result.kind = "KeyError"

\* C8 amended: for a query item that is not in the index,
\* movie_recommender_app.py's recommend_movie returns the empty list as a
\* normal result, and movie_recommender.py's raises KeyError.
C8_UnknownPerScript ==
  UnknownCall =>
    /\ variant = "app" =>
         TheCall.result = [kind |-> "list", entries |-> <<>>, branch |-> "return_empty_list"]
    /\ variant = "simple" => TheCall.result.kind = "KeyError"

\* The app's recommend_movie was called with a title outside the index.
C8_Witness ==
  /\ UnknownCall
  /\ variant = "app"
  /\ TheCall.result.entries = <<>>

\* C9 as stated: when the matrix has an item with a non-zero rating, an
\* all-zero item is never the first entry of a recommend_movie result.
\* (Stated for the calls whose result leaves the query out.)
C9_ZeroItemNeverFirst ==
  ( /\ KnownCall
    /\ QueryExcluded
    /\ \E i \in QueryFrame.columns : ~ZeroItem(i)
    /\ Len(ReturnedTitles) >= 1 )
  => ~ZeroItem(ReturnedTitles[1])

\* C9 amended: an all-zero item is never the first entry of
\* recommend_movie(q, n) when some item other than q has a non-zero
\* similarity to q.
C9_ZeroItemNeverFirstGivenPositive ==
  ( /\ KnownCall
    /\ \E p \in QueryFrame.columns \ {TheCall.movie_name} : ScoreLess(<<0, 1>>, ScoreTo(p))
    /\ Len(ReturnedTitles) >= 1 )
  => ~ZeroItem(ReturnedTitles[1])

\* A matrix with an all-zero item and an item similar to the query, queried.
C9_Witness ==
  /\ KnownCall
  /\ \E z \in QueryFrame.columns : ZeroItem(z)
  /\ \E p \in QueryFrame.columns \ {TheCall.movie_name} : ScoreLess(<<0, 1>>, ScoreTo(p))
  /\ Len(ReturnedTitles) >= 1

(***************************************************************************)
(* Claims about the cached load_data (checked under Spec).                 *)
(***************************************************************************)
\* What the body of load_data returns from the files as they are now.
CurrentBuilds ==
  {o.value : o \in {x \in LoadDataBody(variant, disk) : x.outcome = "return"}}

\* C4: over script runs that follow one another, the body of the cached
\* load_data returns once: the first call computes and stores the result and
\* every later call gets a value equal to it without running the body.  With
\* per-key compute locks the same holds for overlapping runs.
C4_ComputedOnce ==
  (valueLocks \/ ~overlapped) =>
    /\ bodyReturns <= 1
    /\ cache # <<>> => (bodyReturns = 1 /\ cache[1] = firstResult)
    /\ \A s \in Sessions :
         pc[s] = "loaded" => (bodyReturns = 1 /\ movie_similarity_df[s] = firstResult)

\* A later run, never overlapping another, was served from the entry the
\* first one stored.
C4_Witness ==
  /\ ~overlapped
  /\ bodyReturns = 1
  /\ \E s \in Sessions :
       /\ pc[s] = "loaded"
       /\ ~missed[s]
       /\ movie_similarity_df[s] = firstResult
       /\ firstResult.kind = "DataFrame"

\* C5: when the build inside load_data fails, the failure reaches the caller
\* as a failure and no entry is stored for it, so the next call builds again.
C5_FailedBuildNotCached ==
  /\ \A s \in Sessions : buildFailed[s] => pc[s] = "raised"
  /\ cache # <<>> => cache[1].kind # "None"

\* C6: the similarity frame a call of load_data takes from the cache is the
\* one derived from the data files as they are at that call.  (Stated for
\* runs that never overlap, a stored frame with columns and data files that
\* hold ratings.)
C6_NeverStale ==
  [][\A s \in Sessions :
       ( /\ pc[s] = "call" /\ pc'[s] = "loaded"
         /\ ~overlapped
         /\ movie_similarity_df'[s].kind = "DataFrame"
         /\ movie_similarity_df'[s].columns # {}
         /\ disk.files
         /\ PivotTable(disk.data).columns # {} )
       => movie_similarity_df'[s] \in CurrentBuilds]_vars

\* This run's body built a similarity frame with columns.
BuiltFrame(s) ==
  /\ ranBody[s]
  /\ movie_similarity_df[s].kind = "DataFrame"
  /\ movie_similarity_df[s].columns # {}

\* C7: of two callers that both found no stored result, exactly one runs the
\* build and both receive its result.  (Stated for builds that succeed.)
C7_SingleBuild ==
  \A s, t \in Sessions :
    (s # t /\ missed[s] /\ missed[t]) =>
      /\ ~(BuiltFrame(s) /\ BuiltFrame(t))
      /\ ( /\ pc[s] = "loaded" /\ pc[t] = "loaded"
           /\ movie_similarity_df[s].columns # {}
           /\ movie_similarity_df[t].columns # {} )
         => movie_similarity_df[s] = movie_similarity_df[t]

(***************************************************************************)
(* Claim about the app script (checked under SpecPage).                    *)
(***************************************************************************)
\* C10: the button handler calls recommend_movie only with a frame that
\* loaded, a movie_name among its columns and a num_recommendations bound by
\* the slider in 3..10; the `return []` branch is never taken.
C10_HandlerCallsWellFormed ==
  Called =>
    /\ movie_similarity_df[1].kind = "DataFrame"
    /\ TheCall.movie_name \in movie_similarity_df[1].columns
    /\ num_recommendations = <<TheCall.num_recommendations>>
    /\ TheCall.num_recommendations \in SliderMin .. SliderMax
    /\ TheCall.result.branch # "return_empty_list"
    /\ page # "AttributeError"

\* The handler ran recommend_movie on a frame served from the cache.
C10_Witness ==
  /\ Called
  /\ pc[1] = "done"
  /\ ~missed[1]
  /\ page \in {"recommendations_shown", "error_no_recommendations"}

====
